--------------------------- MODULE Spec2Model ---------------------------
(***************************************************************************)
(* github.com/Rapix-x/log: a leveled structured logger over zap with a     *)
(* policy (PIIMode) for rendering PII fields.  The model covers pii.go     *)
(* (field, customPIIField, MaskFunc, hash), logger.go (Configuration,      *)
(* NewLogger, the Logger methods, resolvePIIFunctions) and the package's   *)
(* default logger of logging.go.  Line numbers refer to src/README.md,     *)
(* which carries the Go sources, unless logging.go is named.               *)
(***************************************************************************)
EXTENDS Integers, Sequences, FiniteSets, TLC

(***************************************************************************)
(* crypto/sha256 and encoding/hex, as used by hash (lines 314-318).        *)
(* A 32-bit word is a pair <<hi, lo>> of 16-bit halves, so that every      *)
(* intermediate value stays inside TLC's integers and the arithmetic       *)
(* keeps its width (mod 2^32).                                             *)
(***************************************************************************)
Half == 65536

RECURSIVE Pow2(_)
Pow2(n) == IF n = 0 THEN 1 ELSE 2 * Pow2(n - 1)

RECURSIVE BitXor(_, _)
BitXor(a, b) ==
    IF a = 0 THEN b
    ELSE IF b = 0 THEN a
    ELSE 2 * BitXor(a \div 2, b \div 2) + ((a + b) % 2)

RECURSIVE BitAnd(_, _)
BitAnd(a, b) ==
    IF a = 0 \/ b = 0 THEN 0
    ELSE 2 * BitAnd(a \div 2, b \div 2) + ((a % 2) * (b % 2))

WXor(x, y) == <<BitXor(x[1], y[1]), BitXor(x[2], y[2])>>
WAnd(x, y) == <<BitAnd(x[1], y[1]), BitAnd(x[2], y[2])>>
WNot(x) == <<(Half - 1) - x[1], (Half - 1) - x[2]>>

WAdd(x, y) ==
    LET lo == x[2] + y[2]
        hi == x[1] + y[1] + (lo \div Half)
    IN  <<hi % Half, lo % Half>>

RECURSIVE RotR(_, _)
RotR(x, n) ==
    IF n >= 16 THEN RotR(<<x[2], x[1]>>, n - 16)
    ELSE IF n = 0 THEN x
    ELSE LET p == Pow2(n)
             q == Pow2(16 - n)
         IN  <<(x[1] \div p) + (x[2] % p) * q, (x[2] \div p) + (x[1] % p) * q>>

ShR(x, n) ==
    IF n >= 16 THEN <<0, x[1] \div Pow2(n - 16)>>
    ELSE LET p == Pow2(n)
             q == Pow2(16 - n)
         IN  <<x[1] \div p, (x[2] \div p) + (x[1] % p) * q>>

sha256K ==
    <<
       <<17034, 12184>>, <<28983, 17553>>, <<46528, 64463>>, <<59829, 56229>>,
       <<14678, 49755>>, <<23025, 4593>>, <<37439, 33444>>, <<43804, 24277>>,
       <<55303, 43672>>, <<4739, 23297>>, <<9265, 34238>>, <<21772, 32195>>,
       <<29374, 23924>>, <<32990, 45566>>, <<39900, 1703>>, <<49563, 61812>>,
       <<58523, 27073>>, <<61374, 18310>>, <<4033, 40390>>, <<9228, 41420>>,
       <<11753, 11375>>, <<19060, 33962>>, <<23728, 43484>>, <<30457, 35034>>,
       <<38974, 20818>>, <<43057, 50797>>, <<45059, 10184>>, <<48985, 32711>>,
       <<50912, 3059>>, <<54695, 37191>>, <<1738, 25425>>, <<5161, 10599>>,
       <<10167, 2693>>, <<11803, 8504>>, <<19756, 28156>>, <<21304, 3347>>,
       <<25866, 29524>>, <<30314, 2747>>, <<33218, 51502>>, <<37490, 11397>>,
       <<41663, 59553>>, <<43034, 26187>>, <<49739, 35696>>, <<51052, 20899>>,
       <<53650, 59417>>, <<54937, 1572>>, <<62478, 13701>>, <<4202, 41072>>,
       <<6564, 49430>>, <<7735, 27656>>, <<10056, 30540>>, <<13488, 48309>>,
       <<14620, 3251>>, <<20184, 43594>>, <<23452, 51791>>, <<26670, 28659>>,
       <<29839, 33518>>, <<30885, 25455>>, <<33992, 30740>>, <<36039, 520>>,
       <<37054, 65530>>, <<42064, 27883>>, <<48889, 41975>>, <<50801, 30962>>
    >>

sha256Init ==
    <<
       <<27145, 58983>>, <<47975, 44677>>, <<15470, 62322>>, <<42319, 62778>>,
       <<20750, 21119>>, <<39685, 26764>>, <<8067, 55723>>, <<23520, 52505>>
    >>

BigSigma0(x) == WXor(WXor(RotR(x, 2), RotR(x, 13)), RotR(x, 22))
BigSigma1(x) == WXor(WXor(RotR(x, 6), RotR(x, 11)), RotR(x, 25))
SmallSigma0(x) == WXor(WXor(RotR(x, 7), RotR(x, 18)), ShR(x, 3))
SmallSigma1(x) == WXor(WXor(RotR(x, 17), RotR(x, 19)), ShR(x, 10))
Ch(x, y, z) == WXor(WAnd(x, y), WAnd(WNot(x), z))
Maj(x, y, z) == WXor(WXor(WAnd(x, y), WAnd(x, z)), WAnd(y, z))

\* message padding: 0x80, zeros up to 56 mod 64, then the bit length as a
\* 64-bit big-endian integer (the lengths modelled fit its low 16 bits)
RECURSIVE Zeros(_)
Zeros(n) == IF n = 0 THEN <<>> ELSE <<0>> \o Zeros(n - 1)

sha256Pad(msg) ==
    LET n == Len(msg)
        z == (55 - n) % 64
        bits == 8 * n
    IN  msg \o <<128>> \o Zeros(z) \o Zeros(6) \o <<bits \div 256, bits % 256>>

\* the 16 big-endian words of the block that starts at byte off + 1
BlockWords(p, off) ==
    [j \in 1..16 |->
        <<p[off + 4 * j - 3] * 256 + p[off + 4 * j - 2],
          p[off + 4 * j - 1] * 256 + p[off + 4 * j]>>]

RECURSIVE Schedule(_)
Schedule(w) ==
    IF Len(w) = 64 THEN w
    ELSE LET t == Len(w) + 1
             next == WAdd(WAdd(SmallSigma1(w[t - 2]), w[t - 7]),
                          WAdd(SmallSigma0(w[t - 15]), w[t - 16]))
         IN  Schedule(Append(w, next))

\* one round of the compression function on the working variables a..h
Round(s, w, t) ==
    LET t1 == WAdd(WAdd(WAdd(s[8], BigSigma1(s[5])), Ch(s[5], s[6], s[7])),
                   WAdd(sha256K[t], w[t]))
        t2 == WAdd(BigSigma0(s[1]), Maj(s[1], s[2], s[3]))
    IN  <<WAdd(t1, t2), s[1], s[2], s[3], WAdd(s[4], t1), s[5], s[6], s[7]>>

\* the 64 rounds; testing Len(s) evaluates the state of each round before the
\* next one starts
RECURSIVE Rounds(_, _, _)
Rounds(s, w, t) ==
    IF Len(s) = 8 /\ t <= 64 THEN Rounds(Round(s, w, t), w, t + 1) ELSE s

sha256Block(h, p, off) ==
    LET w == Schedule(BlockWords(p, off))
        s == Rounds(h, w, 1)
    IN  [j \in 1..8 |-> WAdd(h[j], s[j])]

RECURSIVE sha256Blocks(_, _, _)
sha256Blocks(h, p, off) ==
    IF off >= Len(p) THEN h ELSE sha256Blocks(sha256Block(h, p, off), p, off + 64)

\* sha256.Sum256: the digest as 32 bytes
Sum256(msg) ==
    LET h == sha256Blocks(sha256Init, sha256Pad(msg), 0)
    IN  [j \in 1..32 |->
            LET wd == h[((j - 1) \div 4) + 1]
                hf == wd[IF (j - 1) % 4 < 2 THEN 1 ELSE 2]
            IN  IF (j - 1) % 2 = 0 THEN hf \div 256 ELSE hf % 256]

\* hex.EncodeToString: two lowercase hexadecimal digits per byte
hextable == <<"0", "1", "2", "3", "4", "5", "6", "7",
              "8", "9", "a", "b", "c", "d", "e", "f">>

RECURSIVE EncodeToString(_)
EncodeToString(src) ==
    IF Len(src) = 0 THEN ""
    ELSE hextable[(Head(src) \div 16) + 1] \o hextable[(Head(src) % 16) + 1]
         \o EncodeToString(Tail(src))

(***************************************************************************)
(* pii.go                                                                  *)
(***************************************************************************)
PIIModeNone == 0
PIIModeHash == 1
PIIModeMask == 2
PIIModeRemove == 3

piiModes == {PIIModeNone, PIIModeHash, PIIModeMask, PIIModeRemove}

\* Go's nil, for a pointer, a func value or an error
Nil == "nil"

\* ---- the strings of the model ----
Keys == {"", "email", "usernam"}
Values == {"", "abc", "a@b.com", "abc@example.com"}

\* []byte(in): the UTF-8 bytes of the model's values
Bytes(in) ==
    CASE in = "" -> <<>>
      [] in = "abc" -> <<97, 98, 99>>
      [] in = "a@b.com" -> <<97, 64, 98, 46, 99, 111, 109>>
      [] in = "abc@example.com" ->
            <<97, 98, 99, 64, 101, 120, 97, 109, 112, 108, 101, 46, 99, 111, 109>>

\* the body of hash, lines 315-317
sha256hex(in) == EncodeToString(Sum256(Bytes(in)))

\* ---- zap.Field values, as built by zap.String and zap.Skip ----
ZapString(key, val) ==
    [type |-> "zap.Field", Type |-> "StringType", Key |-> key, String |-> val]

ZapSkip ==
    [type |-> "zap.Field", Type |-> "SkipType", Key |-> "", String |-> ""]

\* a run-time panic raised while a value is computed
NilDereference == [type |-> "panic", msg |-> "nil pointer dereference"]

ResolvedPIIField(key, value) == [Key |-> key, Value |-> value]

zapField(f) == ZapString(f.Key, f.Value)

\* ---- values a caller may install in MaskFunc ----
\* maskIt is the README's example; maskZero returns the zero ResolvedPIIField
MaskFuncs == {"maskIt", "maskZero"}

CallMaskFunc(fn, key, value) ==
    CASE fn = "maskIt" -> ResolvedPIIField(key \o "e", "gotcha value, hehe")
      [] fn = "maskZero" -> ResolvedPIIField("", "")

\* ---- values a caller may pass as CustomResolveFunc ----
CustomResolveFuncs == {"singleFieldMask"}

CallCustomResolveFunc(fn, mode, key, value) ==
    CASE fn = "singleFieldMask" ->
            CASE mode = PIIModeHash ->
                    ResolvedPIIField(key, "let's assume this is a hash *coughs in hex*")
              [] mode = PIIModeMask -> ResolvedPIIField(key, "this one is masked")
              [] mode = PIIModeRemove -> ResolvedPIIField("", "")
              [] OTHER -> ResolvedPIIField(key, value)

\* ---- the elements of a variadic argument list ----
Str(s) == [type |-> "string", s |-> s]
Num(n) == [type |-> "int", n |-> n]

\* PII, lines 266-271
PII(key, value) == [type |-> "*field", key |-> key, value |-> value]

\* the nil *customPIIField
NilCustomPIIField == [type |-> "*customPIIField", ptr |-> Nil]

\* CustomPII without the test of resolveFunc
CustomPII_noFuncTest(key, value, resolveFunc) ==
    IF key = "" \/ value = ""
    THEN NilCustomPIIField
    ELSE [type |-> "*customPIIField", key |-> key, value |-> value,
          customResolveFunc |-> resolveFunc]

\* CustomPII, lines 283-293
CustomPII(key, value, resolveFunc) ==
    IF key = "" \/ value = "" \/ resolveFunc = Nil
    THEN NilCustomPIIField
    ELSE [type |-> "*customPIIField", key |-> key, value |-> value,
          customResolveFunc |-> resolveFunc]

(***************************************************************************)
(* logger.go: levels and Configuration                                     *)
(***************************************************************************)
DebugLevel == -1
InfoLevel == 0
WarnLevel == 1
ErrorLevel == 2
PanicLevel == 4
FatalLevel == 5

logLevels == {DebugLevel, InfoLevel, WarnLevel, ErrorLevel, PanicLevel, FatalLevel}

Configuration(app, version, level, mode) ==
    [ApplicationName |-> app, Version |-> version,
     MinimumLogLevel |-> level, PIIMode |-> mode]

\* validateLoggerConf without the test of the mode
validateLoggerConf_noModeTest(conf) ==
    IF conf.MinimumLogLevel \notin logLevels
    THEN "invalid minimum log level in logger configuration"
    ELSE Nil

\* validateLoggerConf, lines 609-619: the error, or Nil
validateLoggerConf(conf) ==
    IF conf.MinimumLogLevel \notin logLevels
    THEN "invalid minimum log level in logger configuration"
    ELSE IF conf.PIIMode \notin piiModes
    THEN "invalid PII mode in logger configuration"
    ELSE Nil

\* errors.Wrap(err, message)
Wrap(err, message) == message \o ": " \o err

\* a Go map[string]interface{} with string values, as a function
EmptyMap == [k \in {} |-> ""]

MapSet(m, key, value) ==
    [k \in DOMAIN m \cup {key} |-> IF k = key THEN value ELSE m[k]]

\* a zapcore.Core: which levels it lets through (enab) and where it writes (ws)
Core(enab, ws) == [enab |-> enab, ws |-> ws]

\* the enablers of lines 753-758 without their test of minLvl
Enabled_unfiltered(core, minLvl, lvl) ==
    CASE core.enab = "level" -> lvl >= minLvl
      [] core.enab = "lowPriority" -> lvl < WarnLevel
      [] core.enab = "highPriority" -> lvl >= WarnLevel

\* core.Enabled(lvl), for a logger of minimum level minLvl: the AtomicLevel of
\* zap.Config, and the two LevelEnablerFuncs of lines 753-758
Enabled(core, minLvl, lvl) ==
    CASE core.enab = "level" -> lvl >= minLvl
      [] core.enab = "lowPriority" -> lvl < WarnLevel /\ lvl >= minLvl
      [] core.enab = "highPriority" -> lvl >= WarnLevel /\ lvl >= minLvl

\* zap.Config.Build on loggerConf (lines 455-458): the level and the initial
\* fields, which zap attaches in the order of their keys; one core, which
\* writes to OutputPaths (line 383)
Build(cfg) ==
    [nop |-> FALSE,
     cores |-> <<Core("level", "stdout")>>,
     level |-> cfg.Level,
     fields |-> (IF "app" \in DOMAIN cfg.InitialFields
                 THEN <<ZapString("app", cfg.InitialFields["app"])>> ELSE <<>>)
                \o (IF "version" \in DOMAIN cfg.InitialFields
                    THEN <<ZapString("version", cfg.InitialFields["version"])>>
                    ELSE <<>>),
     ctx |-> <<>>]

\* zap.NewNop().Sugar()
NewNop ==
    [nop |-> TRUE, cores |-> <<>>, level |-> InfoLevel, fields |-> <<>>, ctx |-> <<>>]

\* zap.New of lines 750-779: a tee of a core for the levels below warn on
\* stdout and a core for warn and above on stderr, and the two fields of
\* zap.Fields
ZapNew(conf) ==
    [nop |-> FALSE,
     cores |-> <<Core("lowPriority", "stdout"), Core("highPriority", "stderr")>>,
     level |-> conf.MinimumLogLevel,
     fields |-> <<ZapString("app", conf.ApplicationName),
                  ZapString("version", conf.Version)>>,
     ctx |-> <<>>]

\* where a zap logger writes a record of level lvl: the output of each of
\* its cores that lets the level through, in the order of the cores
RECURSIVE WrittenBy(_, _, _)
WrittenBy(cores, minLvl, lvl) ==
    IF cores = <<>> THEN <<>>
    ELSE (IF Enabled(Head(cores), minLvl, lvl) THEN <<Head(cores).ws>> ELSE <<>>)
         \o WrittenBy(Tail(cores), minLvl, lvl)

Written(zl, lvl) == WrittenBy(zl.cores, zl.level, lvl)

\* the level at which each method of zap's SugaredLogger writes
LevelOf(op) ==
    CASE op \in {"Debug", "Debugf", "Debugw"} -> DebugLevel
      [] op \in {"Info", "Infof", "Infow"} -> InfoLevel
      [] op \in {"Warn", "Warnf", "Warnw"} -> WarnLevel
      [] op \in {"Error", "Errorf", "Errorw"} -> ErrorLevel
      [] op \in {"Fatal", "Fatalf", "Fatalw"} -> FatalLevel

\* a With that attaches nothing
ZapWith_attachesNothing(zl, args) == zl

\* SugaredLogger.With(args...): a new zap logger that carries args as well
ZapWith(zl, args) == [zl EXCEPT !.ctx = zl.ctx \o args]

\* the Logger literal of NewLogger, lines 463-466
NewLoggerValue(zl, conf) == [logger |-> zl, piiMode |-> conf.PIIMode]

\* the Logger literal of NewNOPLogger, line 422: piiMode keeps its zero value
NewNOPLoggerValue == [logger |-> NewNop, piiMode |-> 0]

\* the Logger literal of With without its piiMode, which keeps the zero value
WithValue_zeroMode(l, args) == [logger |-> ZapWith(l.logger, args), piiMode |-> 0]

\* the Logger literal of With, lines 573-576
WithValue(l, args) == [logger |-> ZapWith(l.logger, args), piiMode |-> l.piiMode]

(***************************************************************************)
(* State                                                                   *)
(***************************************************************************)
VARIABLES
    MaskFunc,    \* pii.go: the package-level MaskFunc, Nil or a function
    loggerConf,  \* logger.go: the fields of the package-level zap.Config that
                 \* NewLogger assigns, Level and InitialFields
    loggers,     \* the heap of Logger values; a *Logger is an index, 0 is nil
    origin,      \* history: how each Logger was made, and from which arguments
    th,          \* per thread: its call in progress, or else its last call
                 \* with what it handed to zap and what it returned
    halt,        \* "run", or why the process ended
    probe,       \* the last direct application of a pure function
    digest       \* the SHA-256 hex digests of Values, computed once in Init

vars == <<MaskFunc, loggerConf, loggers, origin, th, halt, probe, digest>>

Threads == {"t1", "t2"}

\* hash, lines 314-318
hash(in) == digest[in]

\* field.resolve with mode remove forwarding the key with an empty value
field_resolve_emptyValue(f, piiMode, atCheck, atCall) ==
    CASE piiMode = PIIModeNone -> ZapString(f.key, f.value)
      [] piiMode = PIIModeHash -> ZapString(f.key, hash(f.value))
      [] piiMode = PIIModeMask ->
            IF atCheck = Nil THEN ZapSkip
            ELSE IF atCall = Nil THEN NilDereference
            ELSE zapField(CallMaskFunc(atCall, f.key, f.value))
      [] piiMode = PIIModeRemove -> ZapString(f.key, "")
      [] OTHER -> ZapSkip

\* field.resolve with the case of mode mask also taken by mode remove
field_resolve_removeMasks(f, piiMode, atCheck, atCall) ==
    CASE piiMode = PIIModeNone -> ZapString(f.key, f.value)
      [] piiMode = PIIModeHash -> ZapString(f.key, hash(f.value))
      [] piiMode \in {PIIModeMask, PIIModeRemove} ->
            IF atCheck = Nil THEN ZapSkip
            ELSE IF atCall = Nil THEN NilDereference
            ELSE zapField(CallMaskFunc(atCall, f.key, f.value))
      [] OTHER -> ZapSkip

\* field.resolve with the mask function's key ignored
field_resolve_keepsKey(f, piiMode, atCheck, atCall) ==
    CASE piiMode = PIIModeNone -> ZapString(f.key, f.value)
      [] piiMode = PIIModeHash -> ZapString(f.key, hash(f.value))
      [] piiMode = PIIModeMask ->
            IF atCheck = Nil THEN ZapSkip
            ELSE IF atCall = Nil THEN NilDereference
            ELSE ZapString(f.key, CallMaskFunc(atCall, f.key, f.value).Value)
      [] piiMode = PIIModeRemove -> ZapSkip
      [] OTHER -> ZapSkip

\* field.resolve, lines 245-262.  The mask case reads MaskFunc twice: atCheck
\* is the value the test of line 252 reads, atCall the value line 256 calls.
field_resolve(f, piiMode, atCheck, atCall) ==
    CASE piiMode = PIIModeNone -> ZapString(f.key, f.value)
      [] piiMode = PIIModeHash -> ZapString(f.key, hash(f.value))
      [] piiMode = PIIModeMask ->
            IF atCheck = Nil THEN ZapSkip
            ELSE IF atCall = Nil THEN NilDereference
            ELSE zapField(CallMaskFunc(atCall, f.key, f.value))
      [] piiMode = PIIModeRemove -> ZapSkip
      [] OTHER -> ZapSkip

\* customPIIField.resolve, lines 301-303: the receiver is dereferenced and
\* its function called, and either may be nil
customPIIField_resolve(f, piiMode) ==
    IF f = NilCustomPIIField THEN NilDereference
    ELSE IF f.customResolveFunc = Nil THEN NilDereference
    ELSE zapField(CallCustomResolveFunc(f.customResolveFunc, piiMode, f.key, f.value))

\* element.(PIIResolver), line 597: decided by the dynamic type, so a nil
\* *customPIIField inside the interface value conforms as well
PIIResolver(element) == element.type \in {"*field", "*customPIIField"}

\* e.resolve(piiMode), line 598, with mf the value of MaskFunc
resolve(e, piiMode, mf) ==
    IF e.type = "*field"
    THEN field_resolve(e, piiMode, mf, mf)
    ELSE customPIIField_resolve(e, piiMode)

\* the loop without line 603: an element that is no PIIResolver is dropped
RECURSIVE resolvePIIFunctions_dropsPlain(_, _, _, _, _)
resolvePIIFunctions_dropsPlain(piiMode, keyValuePairs, i, out, mf) ==
    IF i > Len(keyValuePairs) THEN [pc |-> "return", i |-> i, out |-> out]
    ELSE LET element == keyValuePairs[i] IN
         IF ~PIIResolver(element)
         THEN resolvePIIFunctions_dropsPlain(piiMode, keyValuePairs, i + 1, out, mf)
         ELSE IF element.type = "*field" /\ piiMode = PIIModeMask /\ mf # Nil
         THEN [pc |-> "mask_call", i |-> i, out |-> out]
         ELSE LET r == resolve(element, piiMode, mf)
              IN  IF r.type = "panic"
                  THEN [pc |-> "panic", i |-> i, out |-> out]
                  ELSE resolvePIIFunctions_dropsPlain(piiMode, keyValuePairs, i + 1,
                                                      Append(out, r), mf)

\* the loop of resolvePIIFunctions, lines 596-604, from element i on, with mf
\* the value of MaskFunc now.  It runs to the return of line 606, to a panic,
\* or up to a standard field under mode mask whose test of line 252 found a
\* function: the call of line 256 is a later step, since it reads MaskFunc again.
RECURSIVE resolvePIIFunctions(_, _, _, _, _)
resolvePIIFunctions(piiMode, keyValuePairs, i, out, mf) ==
    IF i > Len(keyValuePairs) THEN [pc |-> "return", i |-> i, out |-> out]
    ELSE LET element == keyValuePairs[i] IN
         IF ~PIIResolver(element)
         THEN resolvePIIFunctions(piiMode, keyValuePairs, i + 1, Append(out, element), mf)
         ELSE IF element.type = "*field" /\ piiMode = PIIModeMask /\ mf # Nil
         THEN [pc |-> "mask_call", i |-> i, out |-> out]
         ELSE LET r == resolve(element, piiMode, mf)
              IN  IF r.type = "panic"
                  THEN [pc |-> "panic", i |-> i, out |-> out]
                  ELSE resolvePIIFunctions(piiMode, keyValuePairs, i + 1,
                                           Append(out, r), mf)

(***************************************************************************)
(* Threads and calls                                                       *)
(***************************************************************************)
NoConf == Configuration("", "", 0, 0)

\* a thread that has not called anything.  After a call, pc is "idle" again,
\* op names the call, out is the list it handed to zap, ctx what the zap
\* logger attached, dest where zap wrote the record, and ret and err are what
\* the call returned.
Idle ==
    [pc |-> "idle", op |-> "", l |-> 0, msg |-> "", kv |-> <<>>, i |-> 0,
     out |-> <<>>, chk |-> Nil, seen |-> {}, conf |-> NoConf,
     ctx |-> <<>>, dest |-> <<>>, ret |-> 0, err |-> Nil]

NoProbe == [fn |-> "", args |-> <<>>, result |-> Nil]

\* logging.go, line 3: the package's own logger
DefaultConf == Configuration("", "", DebugLevel, 0)

\* the *Logger that logging.go's functions delegate to
logger == 1

Running == "run"
Exit1 == "os.Exit(1)"
PanicNil == "panic: runtime error: invalid memory address or nil pointer dereference"
PanicNoLogger == "panic: logger has not been initialized - panicking"
PanicMust == "panic: received an error while validating the logger configuration"

FatalMethods == {"Fatal", "Fatalf", "Fatalw"}

\* what a zap logger attaches to every record it writes
Carried(zl) == zl.fields \o zl.ctx

Init ==
    /\ MaskFunc = Nil
    /\ loggerConf = [Level |-> DebugLevel, InitialFields |-> EmptyMap]
    /\ loggers = <<NewLoggerValue(Build([Level |-> DebugLevel, InitialFields |-> EmptyMap]),
                                  DefaultConf)>>
    /\ origin = <<[by |-> "NewLogger", parent |-> 0, conf |-> DefaultConf, args |-> <<>>]>>
    /\ th = [t \in Threads |-> Idle]
    /\ halt = Running
    /\ probe = NoProbe
    /\ digest = [v \in Values |-> sha256hex(v)]

\* handleUninitialized, lines 579-584: panics on a nil *Logger
handleUninitialized(l) == l = 0

\* the call in progress panics: the process ends, the frame stays as it was
Panics(t, f, why) ==
    /\ halt' = why
    /\ th' = [th EXCEPT ![t] = [f EXCEPT !.pc = "panic"]]
    /\ UNCHANGED <<MaskFunc, loggerConf, loggers, origin, probe, digest>>

\* the zap call that ends a method: args is the list handed to zap
Deliver(t, f, args) ==
    LET done == [f EXCEPT !.pc = "idle", !.out = args,
                          !.ctx = Carried(loggers[f.l].logger),
                          !.dest = IF f.op = "With" THEN <<>>
                                   ELSE Written(loggers[f.l].logger, LevelOf(f.op))]
    IN  /\ IF f.op = "With"
           THEN /\ loggers' = Append(loggers, WithValue(loggers[f.l], args))
                /\ origin' = Append(origin, [by |-> "With", parent |-> f.l,
                                             conf |-> NoConf, args |-> args])
                /\ th' = [th EXCEPT ![t] = [done EXCEPT !.ret = Len(loggers) + 1]]
                /\ UNCHANGED halt
           ELSE /\ th' = [th EXCEPT ![t] = done]
                /\ halt' = IF f.op \in FatalMethods THEN Exit1 ELSE halt
                /\ UNCHANGED <<loggers, origin>>
        /\ UNCHANGED <<MaskFunc, loggerConf, probe, digest>>

\* where the loop of resolvePIIFunctions got to
Advance(t, f, r) ==
    CASE r.pc = "return" -> Deliver(t, f, r.out)
      [] r.pc = "mask_call" ->
            /\ th' = [th EXCEPT ![t] = [f EXCEPT !.pc = "mask_call", !.i = r.i,
                                                 !.out = r.out, !.chk = MaskFunc,
                                                 !.seen = {MaskFunc}]]
            /\ UNCHANGED <<MaskFunc, loggerConf, loggers, origin, halt, probe, digest>>
      [] r.pc = "panic" -> Panics(t, [f EXCEPT !.i = r.i, !.out = r.out], PanicNil)

\* Debugw, Infow, Warnw, Errorw, Fatalw and With up to their first step that
\* depends on another thread
Structured(t, op, l, msg, keyValuePairs) ==
    /\ halt = Running
    /\ th[t].pc = "idle"
    /\ LET f == [Idle EXCEPT !.op = op, !.l = l, !.msg = msg, !.kv = keyValuePairs] IN
       IF handleUninitialized(l)
       THEN Panics(t, f, PanicNoLogger)
       ELSE Advance(t, f, resolvePIIFunctions(loggers[l].piiMode, keyValuePairs, 1,
                                              <<>>, MaskFunc))

\* line 256 of a standard field under mode mask: MaskFunc is read again and
\* called, and the loop goes on
MaskCall(t) ==
    /\ halt = Running
    /\ th[t].pc = "mask_call"
    /\ LET f == th[t]
           piiMode == loggers[f.l].piiMode
           r == field_resolve(f.kv[f.i], piiMode, f.chk, MaskFunc)
           g == [f EXCEPT !.chk = Nil, !.seen = {}]
       IN  IF r.type = "panic"
           THEN Panics(t, f, PanicNil)
           ELSE Advance(t, g, resolvePIIFunctions(piiMode, f.kv, f.i + 1,
                                                  Append(f.out, r), MaskFunc))

\* an assignment to log.MaskFunc by a thread that is not inside a call
SetMaskFunc(t, fn) ==
    /\ halt = Running
    /\ th[t].pc = "idle"
    /\ fn # MaskFunc
    /\ MaskFunc' = fn
    /\ th' = [u \in Threads |->
                IF th[u].pc = "mask_call"
                THEN [th[u] EXCEPT !.seen = @ \cup {fn}] ELSE th[u]]
    /\ UNCHANGED <<loggerConf, loggers, origin, halt, probe, digest>>

\* a plain method without its call of handleUninitialized: l.logger is read
\* through the nil *Logger
Plain_unchecked(t, op, l, format, v) ==
    /\ halt = Running
    /\ th[t].pc = "idle"
    /\ LET f == [Idle EXCEPT !.op = op, !.l = l, !.msg = format, !.kv = v] IN
       IF l = 0
       THEN Panics(t, f, PanicNil)
       ELSE Deliver(t, f, v)

\* the plain and the formatted methods: v goes to zap as it is
Plain(t, op, l, format, v) ==
    /\ halt = Running
    /\ th[t].pc = "idle"
    /\ LET f == [Idle EXCEPT !.op = op, !.l = l, !.msg = format, !.kv = v] IN
       IF handleUninitialized(l)
       THEN Panics(t, f, PanicNoLogger)
       ELSE Deliver(t, f, v)

(***************************************************************************)
(* The methods of Logger, lines 469-577                                    *)
(***************************************************************************)
MaxLoggers == 3

\* calls in progress that end by allocating a Logger
Pending ==
    Cardinality({u \in Threads :
                    th[u].pc \notin {"idle", "panic"}
                    /\ th[u].op \in {"With", "NewLogger", "MustNewLogger"}})

CanAllocate == Len(loggers) + Pending < MaxLoggers

MaxBuilt == 2

\* the loggers NewLogger has built, the package's own among them
Built ==
    Cardinality({id \in 1..Len(loggers) :
                    origin[id].by \in {"NewLogger", "NewLoggerTee"}})

CanBuild == CanAllocate /\ Built < MaxBuilt

Debug(t, l, v) == Plain(t, "Debug", l, "", v)
Debugf(t, l, format, v) == Plain(t, "Debugf", l, format, v)
Debugw(t, l, msg, keyValuePairs) == Structured(t, "Debugw", l, msg, keyValuePairs)
Error(t, l, v) == Plain(t, "Error", l, "", v)
Errorf(t, l, format, v) == Plain(t, "Errorf", l, format, v)
Errorw(t, l, msg, keyValuePairs) == Structured(t, "Errorw", l, msg, keyValuePairs)
Fatal(t, l, v) == Plain(t, "Fatal", l, "", v)
Fatalf(t, l, format, v) == Plain(t, "Fatalf", l, format, v)
Fatalw(t, l, msg, keyValuePairs) == Structured(t, "Fatalw", l, msg, keyValuePairs)
Info(t, l, v) == Plain(t, "Info", l, "", v)
Infof(t, l, format, v) == Plain(t, "Infof", l, format, v)
Infow(t, l, msg, keyValuePairs) == Structured(t, "Infow", l, msg, keyValuePairs)
Warn(t, l, v) == Plain(t, "Warn", l, "", v)
Warnf(t, l, format, v) == Plain(t, "Warnf", l, format, v)
Warnw(t, l, msg, keyValuePairs) == Structured(t, "Warnw", l, msg, keyValuePairs)

With(t, l, keyValuePairs) ==
    /\ CanAllocate
    /\ Structured(t, "With", l, "", keyValuePairs)

\* Sync, lines 545-549: err is what zap's Sync returns
Sync(t, l, err) ==
    /\ halt = Running
    /\ th[t].pc = "idle"
    /\ LET f == [Idle EXCEPT !.op = "Sync", !.l = l] IN
       IF handleUninitialized(l)
       THEN Panics(t, f, PanicNoLogger)
       ELSE /\ th' = [th EXCEPT ![t] = [f EXCEPT !.err = err,
                                                 !.ctx = Carried(loggers[l].logger)]]
            /\ UNCHANGED <<MaskFunc, loggerConf, loggers, origin, halt, probe, digest>>

(***************************************************************************)
(* Construction, lines 417-467                                             *)
(***************************************************************************)
NewNOPLogger(t) ==
    /\ halt = Running
    /\ th[t].pc = "idle"
    /\ CanAllocate
    /\ loggers' = Append(loggers, NewNOPLoggerValue)
    /\ origin' = Append(origin, [by |-> "NewNOPLogger", parent |-> 0, conf |-> NoConf,
                                 args |-> <<>>])
    /\ th' = [th EXCEPT ![t] = [Idle EXCEPT !.op = "NewNOPLogger",
                                            !.ret = Len(loggers) + 1]]
    /\ UNCHANGED <<MaskFunc, loggerConf, halt, probe, digest>>

\* the statement NewLogger executes next, after those up to line 445,
\* line 449 or line 453
AfterInitialFields(conf) ==
    IF conf.ApplicationName # "" THEN "new_app"
    ELSE IF conf.Version # "" THEN "new_version" ELSE "new_build"

AfterApp(conf) == IF conf.Version # "" THEN "new_version" ELSE "new_build"

\* lines 439-444 of NewLogger, called directly (op = "NewLogger") or through
\* MustNewLogger, which panics on the error (lines 426-433)
Construct(t, op, conf) ==
    /\ halt = Running
    /\ th[t].pc = "idle"
    /\ LET err == validateLoggerConf(conf)
           f == [Idle EXCEPT !.op = op, !.conf = conf]
       IN  IF err # Nil
           THEN IF op = "MustNewLogger"
                THEN Panics(t, f, PanicMust)
                ELSE /\ th' = [th EXCEPT ![t] =
                                 [f EXCEPT !.ret = 0,
                                           !.err = Wrap(err, "received an error while validating the logger configuration")]]
                     /\ UNCHANGED <<MaskFunc, loggerConf, loggers, origin, halt,
                                    probe, digest>>
           ELSE /\ CanBuild
                /\ loggerConf' = [loggerConf EXCEPT !.Level = conf.MinimumLogLevel]
                /\ th' = [th EXCEPT ![t] = [f EXCEPT !.pc = "new_fields"]]
                /\ UNCHANGED <<MaskFunc, loggers, origin, halt, probe, digest>>

NewLogger(t, conf) == Construct(t, "NewLogger", conf)

MustNewLogger(t, conf) == Construct(t, "MustNewLogger", conf)

\* line 445
NewLoggerInitialFields(t) ==
    /\ halt = Running
    /\ th[t].pc = "new_fields"
    /\ loggerConf' = [loggerConf EXCEPT !.InitialFields = EmptyMap]
    /\ th' = [th EXCEPT ![t].pc = AfterInitialFields(th[t].conf)]
    /\ UNCHANGED <<MaskFunc, loggers, origin, halt, probe, digest>>

\* lines 447-449
NewLoggerApp(t) ==
    /\ halt = Running
    /\ th[t].pc = "new_app"
    /\ loggerConf' = [loggerConf EXCEPT
                        !.InitialFields = MapSet(@, "app", th[t].conf.ApplicationName)]
    /\ th' = [th EXCEPT ![t].pc = AfterApp(th[t].conf)]
    /\ UNCHANGED <<MaskFunc, loggers, origin, halt, probe, digest>>

\* lines 451-453
NewLoggerVersion(t) ==
    /\ halt = Running
    /\ th[t].pc = "new_version"
    /\ loggerConf' = [loggerConf EXCEPT
                        !.InitialFields = MapSet(@, "version", th[t].conf.Version)]
    /\ th' = [th EXCEPT ![t].pc = "new_build"]
    /\ UNCHANGED <<MaskFunc, loggers, origin, halt, probe, digest>>

\* lines 455-466.  Build does not fail on this loggerConf: its encoding is
\* registered and its outputs are stdout and stderr
NewLoggerBuild(t) ==
    /\ halt = Running
    /\ th[t].pc = "new_build"
    /\ loggers' = Append(loggers, NewLoggerValue(Build(loggerConf), th[t].conf))
    /\ origin' = Append(origin, [by |-> "NewLogger", parent |-> 0, conf |-> th[t].conf,
                                 args |-> <<>>])
    /\ th' = [th EXCEPT ![t] = [th[t] EXCEPT !.pc = "idle", !.ret = Len(loggers) + 1,
                                             !.err = Nil]]
    /\ UNCHANGED <<MaskFunc, loggerConf, halt, probe, digest>>

\* NewLogger of lines 744-785, called directly or through the MustNewLogger
\* of lines 732-739: it reads and writes nothing but its arguments
ConstructTee(t, op, conf) ==
    /\ halt = Running
    /\ th[t].pc = "idle"
    /\ LET err == validateLoggerConf(conf)
           f == [Idle EXCEPT !.op = op, !.conf = conf]
       IN  IF err # Nil
           THEN IF op = "MustNewLoggerTee"
                THEN Panics(t, f, PanicMust)
                ELSE /\ th' = [th EXCEPT ![t] =
                                 [f EXCEPT !.ret = 0,
                                           !.err = Wrap(err, "received an error while validating the logger configuration")]]
                     /\ UNCHANGED <<MaskFunc, loggerConf, loggers, origin, halt,
                                    probe, digest>>
           ELSE /\ CanBuild
                /\ loggers' = Append(loggers, NewLoggerValue(ZapNew(conf), conf))
                /\ origin' = Append(origin, [by |-> "NewLoggerTee", parent |-> 0,
                                             conf |-> conf, args |-> <<>>])
                /\ th' = [th EXCEPT ![t] = [f EXCEPT !.ret = Len(loggers) + 1]]
                /\ UNCHANGED <<MaskFunc, loggerConf, halt, probe, digest>>

NewLoggerTee(t, conf) == ConstructTee(t, "NewLoggerTee", conf)

MustNewLoggerTee(t, conf) == ConstructTee(t, "MustNewLoggerTee", conf)

(***************************************************************************)
(* Direct applications of the pure functions of pii.go                     *)
(***************************************************************************)
\* f.resolve(piiMode) on the standard field PII(key, value), with no other
\* thread running
ProbeFieldResolve(piiMode, key, value) ==
    /\ halt = Running
    /\ probe' = [fn |-> "field.resolve",
                 args |-> [piiMode |-> piiMode, key |-> key, value |-> value,
                           func |-> MaskFunc],
                 result |-> field_resolve(PII(key, value), piiMode, MaskFunc, MaskFunc)]
    /\ UNCHANGED <<MaskFunc, loggerConf, loggers, origin, th, halt, digest>>

\* CustomPII(key, value, resolveFunc)
ProbeCustomPII(key, value, resolveFunc) ==
    /\ halt = Running
    /\ probe' = [fn |-> "CustomPII",
                 args |-> [piiMode |-> 0, key |-> key, value |-> value,
                           func |-> resolveFunc],
                 result |-> CustomPII(key, value, resolveFunc)]
    /\ UNCHANGED <<MaskFunc, loggerConf, loggers, origin, th, halt, digest>>

\* CustomPII(key, value, resolveFunc).resolve(piiMode): a panic ends the process
ProbeCustomResolve(piiMode, key, value, resolveFunc) ==
    /\ halt = Running
    /\ LET r == customPIIField_resolve(CustomPII(key, value, resolveFunc), piiMode)
       IN  /\ probe' = [fn |-> "customPIIField.resolve",
                        args |-> [piiMode |-> piiMode, key |-> key, value |-> value,
                                  func |-> resolveFunc],
                        result |-> r]
           /\ halt' = IF r.type = "panic" THEN PanicNil ELSE halt
    /\ UNCHANGED <<MaskFunc, loggerConf, loggers, origin, th, digest>>

(***************************************************************************)
(* Inputs                                                                  *)
(***************************************************************************)
MaxArgs == 2
MaxMode == 5
LevelSpan == 1

\* PIIMode is a uint8, Level an int8: the defined values and some around them
Modes == 0..MaxMode
Levels == (DebugLevel - LevelSpan)..(FatalLevel + LevelSpan)

Apps == {"", "example-app"}
Versions == {"", "1.0.0"}

\* every level with every mode, and every way to name application and version
AllConfs ==
    {Configuration("example-app", "", lv, m) : lv \in Levels, m \in Modes}
    \cup {Configuration(a, v, InfoLevel, PIIModeNone) : a \in Apps, v \in Versions}

\* two valid configurations, and one per way to be invalid
SomeConfs ==
    {Configuration("example-app", "1.0.0", WarnLevel, PIIModeRemove),
     Configuration("", "", InfoLevel, PIIModeMask),
     Configuration("", "", 3, PIIModeNone),
     Configuration("", "", InfoLevel, PIIModeRemove + 1)}

Elements ==
    {Str("user"), Num(3),
     PII("email", "a@b.com"),
     CustomPII("email", "a@b.com", "singleFieldMask"),
     CustomPII("", "a@b.com", "singleFieldMask")}

\* the README's calls and a key followed by a PII field among plain pairs
Examples ==
    {<<Str("user"), PII("email", "a@b.com"), Str("count"), Num(3)>>,
     <<PII("usernam", "abc@example.com")>>,
     <<CustomPII("usernam", "abc@example.com", "singleFieldMask")>>}

ArgLists == UNION {[1..n -> Elements] : n \in 0..MaxArgs} \cup Examples

SomeArgLists ==
    Examples \cup {<<>>, <<Str("user"), Num(3)>>,
                   <<PII("email", "a@b.com"), PII("email", "abc")>>,
                   <<CustomPII("", "a@b.com", "singleFieldMask")>>}

\* a key followed by a PII field, a nil custom field, and a custom field
\* followed by a plain pair
FewArgLists ==
    {<<Str("user"), PII("email", "a@b.com")>>,
     <<CustomPII("", "a@b.com", "singleFieldMask")>>,
     <<CustomPII("usernam", "abc@example.com", "singleFieldMask"),
       Str("count"), Num(3)>>}

MaskArgLists == {<<PII("email", "a@b.com")>>, <<PII("email", "a@b.com"), PII("usernam", "abc")>>}

\* a *Logger: nil or one on the heap
LoggerRefs == 0..Len(loggers)

(***************************************************************************)
(* Specifications                                                          *)
(***************************************************************************)
\* the whole package, called from one thread
Next ==
    \/ \E fn \in {"maskIt", Nil} : SetMaskFunc("t1", fn)
    \/ MaskCall("t1")
    \/ NewNOPLogger("t1")
    \/ \E conf \in SomeConfs : NewLogger("t1", conf)
    \/ \E conf \in SomeConfs : MustNewLogger("t1", conf)
    \/ NewLoggerInitialFields("t1")
    \/ NewLoggerApp("t1")
    \/ NewLoggerVersion("t1")
    \/ NewLoggerBuild("t1")
    \/ \E l \in LoggerRefs, v \in {<<Str("user")>>} :
        \/ Debug("t1", l, v) \/ Debugf("t1", l, "%v", v)
        \/ Error("t1", l, v) \/ Errorf("t1", l, "%v", v)
        \/ Fatal("t1", l, v) \/ Fatalf("t1", l, "%v", v)
        \/ Info("t1", l, v) \/ Infof("t1", l, "%v", v)
        \/ Warn("t1", l, v) \/ Warnf("t1", l, "%v", v)
    \/ \E l \in LoggerRefs, kv \in FewArgLists :
        \/ Debugw("t1", l, "msg", kv)
        \/ Errorw("t1", l, "msg", kv)
        \/ Fatalw("t1", l, "msg", kv)
        \/ Infow("t1", l, "msg", kv)
        \/ Warnw("t1", l, "msg", kv)
        \/ With("t1", l, kv)
    \/ \E l \in LoggerRefs, err \in {Nil, "sync /dev/stdout: invalid argument"} :
        Sync("t1", l, err)

Spec == Init /\ [][Next]_vars

\* the state after NewLogger has returned a logger of mode mask
MaskConf == Configuration("", "", InfoLevel, PIIModeMask)

InitMask ==
    /\ MaskFunc = Nil
    /\ loggerConf = [Level |-> InfoLevel, InitialFields |-> EmptyMap]
    /\ loggers = <<NewLoggerValue(Build([Level |-> DebugLevel, InitialFields |-> EmptyMap]),
                                  DefaultConf),
                   NewLoggerValue(Build([Level |-> InfoLevel, InitialFields |-> EmptyMap]),
                                  MaskConf)>>
    /\ origin = <<[by |-> "NewLogger", parent |-> 0, conf |-> DefaultConf, args |-> <<>>],
                  [by |-> "NewLogger", parent |-> 0, conf |-> MaskConf, args |-> <<>>]>>
    /\ th = [t \in Threads |-> Idle]
    /\ halt = Running
    /\ probe = NoProbe
    /\ digest = [v \in Values |-> sha256hex(v)]

\* two threads on these loggers while MaskFunc is reassigned
NextMask ==
    \E t \in Threads :
        \/ \E fn \in MaskFuncs \cup {Nil} : SetMaskFunc(t, fn)
        \/ MaskCall(t)
        \/ \E l \in 1..Len(loggers), kv \in MaskArgLists : Infow(t, l, "msg", kv)

SpecMask == InitMask /\ [][NextMask]_vars

\* the state after NewLogger has returned a logger of each mode, in the order
\* of the modes, to one thread
ScanConfs == [m \in 1..4 |-> Configuration("", "", DebugLevel, m - 1)]

InitScan ==
    /\ MaskFunc = Nil
    /\ loggerConf = [Level |-> DebugLevel, InitialFields |-> EmptyMap]
    /\ loggers = <<NewLoggerValue(Build([Level |-> DebugLevel, InitialFields |-> EmptyMap]),
                                  DefaultConf)>>
                 \o [m \in 1..4 |->
                        NewLoggerValue(Build([Level |-> DebugLevel,
                                              InitialFields |-> EmptyMap]),
                                       ScanConfs[m])]
    /\ origin = <<[by |-> "NewLogger", parent |-> 0, conf |-> DefaultConf, args |-> <<>>]>>
                \o [m \in 1..4 |-> [by |-> "NewLogger", parent |-> 0,
                                     conf |-> ScanConfs[m], args |-> <<>>]]
    /\ th = [t \in Threads |-> Idle]
    /\ halt = Running
    /\ probe = NoProbe
    /\ digest = [v \in Values |-> sha256hex(v)]

\* one thread on these loggers: Infow with every argument list up to MaxArgs
\* elements, the other levels with the examples
NextScan ==
    \/ \E fn \in MaskFuncs \cup {Nil} : SetMaskFunc("t1", fn)
    \/ MaskCall("t1")
    \/ \E l \in 1..Len(loggers), kv \in ArgLists : Infow("t1", l, "msg", kv)
    \/ \E l \in 1..Len(loggers), kv \in SomeArgLists :
        \/ Debugw("t1", l, "msg", kv)
        \/ Errorw("t1", l, "msg", kv)
        \/ Fatalw("t1", l, "msg", kv)
        \/ Warnw("t1", l, "msg", kv)

SpecScan == InitScan /\ [][NextScan]_vars

\* one thread, every configuration
NextNew ==
    \/ \E conf \in AllConfs : NewLogger("t1", conf)
    \/ \E conf \in AllConfs : MustNewLogger("t1", conf)
    \/ NewLoggerInitialFields("t1")
    \/ NewLoggerApp("t1")
    \/ NewLoggerVersion("t1")
    \/ NewLoggerBuild("t1")

SpecNew == Init /\ [][NextNew]_vars

\* two configurations that differ in level, application and version
RaceConfs ==
    {Configuration("example-app", "1.0.0", WarnLevel, PIIModeNone),
     Configuration("", "", ErrorLevel, PIIModeHash)}

\* two threads that construct loggers at the same time and write records
\* through the loggers they find
NextRace ==
    \E t \in Threads :
        \/ \E conf \in RaceConfs : NewLogger(t, conf)
        \/ \E conf \in RaceConfs : MustNewLogger(t, conf)
        \/ NewLoggerInitialFields(t)
        \/ NewLoggerApp(t)
        \/ NewLoggerVersion(t)
        \/ NewLoggerBuild(t)
        \/ \E l \in 1..Len(loggers), v \in {<<Str("user")>>} :
            \/ Info(t, l, v)
            \/ Warn(t, l, v)

SpecRace == Init /\ [][NextRace]_vars

\* every level, valid or not, for an unnamed application, and every way to
\* name application and version
TeeConfs ==
    {Configuration("", "", lv, PIIModeNone) : lv \in Levels}
    \cup {Configuration(a, v, InfoLevel, PIIModeNone) : a \in Apps, v \in Versions}

\* the package built from the logger.go whose NewLogger tees stdout and stderr
InitTee ==
    /\ MaskFunc = Nil
    /\ loggerConf = [Level |-> InfoLevel, InitialFields |-> EmptyMap]
    /\ loggers = <<NewLoggerValue(ZapNew(DefaultConf), DefaultConf)>>
    /\ origin = <<[by |-> "NewLoggerTee", parent |-> 0, conf |-> DefaultConf,
                   args |-> <<>>]>>
    /\ th = [t \in Threads |-> Idle]
    /\ halt = Running
    /\ probe = NoProbe
    /\ digest = [v \in Values |-> sha256hex(v)]

NextTee ==
    \/ \E conf \in TeeConfs : NewLoggerTee("t1", conf)
    \/ \E conf \in TeeConfs : MustNewLoggerTee("t1", conf)
    \/ \E l \in LoggerRefs, v \in {<<Str("user")>>} :
        \/ Debug("t1", l, v) \/ Debugf("t1", l, "%v", v)
        \/ Error("t1", l, v) \/ Errorf("t1", l, "%v", v)
        \/ Fatal("t1", l, v) \/ Fatalf("t1", l, "%v", v)
        \/ Info("t1", l, v) \/ Infof("t1", l, "%v", v)
        \/ Warn("t1", l, v) \/ Warnf("t1", l, "%v", v)
    \/ \E l \in LoggerRefs, kv \in {<<Str("user"), Num(3)>>} :
        \/ Debugw("t1", l, "msg", kv)
        \/ Errorw("t1", l, "msg", kv)
        \/ Fatalw("t1", l, "msg", kv)
        \/ Infow("t1", l, "msg", kv)
        \/ Warnw("t1", l, "msg", kv)
        \/ With("t1", l, kv)

SpecTee == InitTee /\ [][NextTee]_vars

\* the pure functions on every input
NextPure ==
    \/ \E fn \in MaskFuncs \cup {Nil} : SetMaskFunc("t1", fn)
    \/ \E m \in Modes, k \in Keys, v \in Values : ProbeFieldResolve(m, k, v)
    \/ \E k \in Keys, v \in Values, fn \in CustomResolveFuncs \cup {Nil} :
        ProbeCustomPII(k, v, fn)
    \/ \E m \in Modes, k \in Keys, v \in Values, fn \in CustomResolveFuncs \cup {Nil} :
        ProbeCustomResolve(m, k, v, fn)

SpecPure == Init /\ [][NextPure]_vars

(***************************************************************************)
(* Properties                                                              *)
(***************************************************************************)
StructuredOps == {"Debugw", "Errorw", "Fatalw", "Infow", "Warnw", "With"}

EmissionOps ==
    {"Debug", "Debugf", "Debugw", "Error", "Errorf", "Errorw", "Fatal", "Fatalf",
     "Fatalw", "Info", "Infof", "Infow", "Warn", "Warnf", "Warnw"}

\* thread t has returned from a call of a method on a logger
Returned(t) == th[t].pc = "idle" /\ th[t].op # "" /\ th[t].l # 0

\* C1: while threads reassign MaskFunc, no resolution of a standard PII field
\* under mode mask crashes, and every result a call forwards for such a field
\* is an omission or the return value of one function that can be installed.
C1_MaskResolutionSafe ==
    \A t \in Threads :
        LET f == th[t] IN
        (f.op \in StructuredOps /\ f.l # 0 /\ loggers[f.l].piiMode = PIIModeMask) =>
            /\ f.pc # "panic"
            /\ f.pc = "idle" =>
                \A i \in 1..Len(f.kv) :
                    f.kv[i].type = "*field" =>
                        \/ f.out[i] = ZapSkip
                        \/ \E g \in MaskFuncs :
                            f.out[i] = zapField(CallMaskFunc(g, f.kv[i].key,
                                                             f.kv[i].value))

\* a thread passed the test of line 252 and called a MaskFunc that was nil
C1_NilCalled ==
    \E t \in Threads :
        /\ th[t].pc = "panic"
        /\ halt = PanicNil
        /\ loggers[th[t].l].piiMode = PIIModeMask
        /\ th[t].kv[th[t].i].type = "*field"
        /\ th[t].chk # Nil
        /\ MaskFunc = Nil

\* C2: a structured emission or a With whose arguments hold the nil result of
\* CustomPII does not crash, and what it forwards has no entry for the nil.
C2_NilCustomPIIDropped ==
    \A t \in Threads :
        LET f == th[t]
            kept == {i \in 1..Len(f.kv) : f.kv[i] # NilCustomPIIField}
        IN  (f.op \in StructuredOps /\ f.l # 0 /\ kept # 1..Len(f.kv)) =>
                /\ f.pc # "panic"
                /\ f.pc = "idle" =>
                    /\ Len(f.out) = Cardinality(kept)
                    /\ \A j \in 1..Len(f.out) : f.out[j] # NilCustomPIIField

\* With dereferenced the nil custom field
C2_NilDereferenced ==
    \E t \in Threads :
        /\ th[t].pc = "panic"
        /\ halt = PanicNil
        /\ th[t].op = "With"
        /\ th[t].kv[th[t].i] = NilCustomPIIField

\* the standard PII fields of kv each follow a string, and kv holds at least
\* one of them and no custom field
KeyedPII(kv) ==
    /\ \E i \in 1..Len(kv) : kv[i].type = "*field"
    /\ \A i \in 1..Len(kv) :
        /\ kv[i].type # "*customPIIField"
        /\ kv[i].type = "*field" => i > 1 /\ kv[i - 1].type = "string"

\* kv without its standard PII fields and the keys before them
RECURSIVE PairsRemoved(_)
PairsRemoved(kv) ==
    IF Len(kv) = 0 THEN <<>>
    ELSE IF Len(kv) >= 2 /\ kv[1].type = "string" /\ kv[2].type = "*field"
    THEN PairsRemoved(SubSeq(kv, 3, Len(kv)))
    ELSE <<kv[1]>> \o PairsRemoved(Tail(kv))

\* a structured emission on a logger of mode remove has returned to t, and it
\* was given standard PII fields in the value position
RemovedPair(t) ==
    /\ Returned(t)
    /\ th[t].op \in StructuredOps \ {"With"}
    /\ loggers[th[t].l].piiMode = PIIModeRemove
    /\ KeyedPII(th[t].kv)

C4_EmptyKeyOmitted ==
    \A t \in Threads :
        (Returned(t) /\ th[t].op \in StructuredOps) =>
            \A i \in 1..Len(th[t].out) :
                ~(/\ th[t].out[i].type = "zap.Field"
                  /\ th[t].out[i].Type = "StringType"
                  /\ th[t].out[i].Key = "")

C4_EmptyKeyForwarded ==
    \E t \in Threads :
        /\ Returned(t)
        /\ th[t].op = "Infow"
        /\ loggers[th[t].l].piiMode = PIIModeRemove
        /\ th[t].kv = <<CustomPII("usernam", "abc@example.com", "singleFieldMask")>>
        /\ th[t].out = <<ZapString("", "")>>

\* SHA-256 known answers: the hex digests of Values
KnownDigest(v) ==
    CASE v = "" -> "e3b0c44298fc1c149afbf4c8996fb92427ae41e4649b934ca495991b7852b855"
      [] v = "abc" -> "ba7816bf8f01cfea414140de5dae2223b00361a396177a9cb410ff61f20015ad"
      [] v = "a@b.com" ->
            "fb98d44ad7501a959f3f4f4a3f004fe2d9e581ea6207e218c4b02c08a4d75adf"
      [] v = "abc@example.com" ->
            "9eceb13483d7f187ec014fd6d4854d1420cfc634328af85f51d0323ba8622e21"

\* C5: under every mode but mask, resolving a standard PII field gives a
\* result fixed by mode, key and value, whatever MaskFunc is: none the key and
\* the value, hash the key and the SHA-256 hex digest of the value, remove and
\* every undefined mode an omission.
C5_NonMaskResolveIsPure ==
    (probe.fn = "field.resolve" /\ probe.args.piiMode # PIIModeMask) =>
        probe.result =
            CASE probe.args.piiMode = PIIModeNone ->
                    ZapString(probe.args.key, probe.args.value)
              [] probe.args.piiMode = PIIModeHash ->
                    ZapString(probe.args.key, KnownDigest(probe.args.value))
              [] OTHER -> ZapSkip

C5_HashedWhileMaskFuncSet ==
    /\ probe.fn = "field.resolve"
    /\ probe.args = [piiMode |-> PIIModeHash, key |-> "email", value |-> "a@b.com",
                     func |-> "maskIt"]
    /\ MaskFunc = "maskIt"
    /\ probe.result =
        ZapString("email",
                  "fb98d44ad7501a959f3f4f4a3f004fe2d9e581ea6207e218c4b02c08a4d75adf")

\* C6: under mode mask, resolving a standard PII field gives an omission when
\* MaskFunc is unset, and otherwise the key and the value that MaskFunc
\* returns for the field's key and value.
C6_MaskResolve ==
    (probe.fn = "field.resolve" /\ probe.args.piiMode = PIIModeMask) =>
        IF probe.args.func = Nil
        THEN probe.result = ZapSkip
        ELSE LET r == CallMaskFunc(probe.args.func, probe.args.key, probe.args.value)
             IN  /\ probe.result.type = "zap.Field"
                 /\ probe.result.Type = "StringType"
                 /\ probe.result.Key = r.Key
                 /\ probe.result.String = r.Value

C6_KeyAndValueReplaced ==
    /\ probe.fn = "field.resolve"
    /\ probe.args.piiMode = PIIModeMask
    /\ probe.args.func = "maskIt"
    /\ probe.args.key = "usernam"
    /\ probe.result.Key = "username"
    /\ probe.result.String # probe.args.value

\* C7: CustomPII returns nil exactly when the key is empty, the value is empty
\* or the function is nil, and otherwise a field holding its three arguments;
\* it does not panic.
C7_CustomPIINilIff ==
    probe.fn = "CustomPII" =>
        LET a == probe.args
            absent == a.key = "" \/ a.value = "" \/ a.func = Nil
        IN  /\ halt = Running
            /\ (probe.result = NilCustomPIIField) <=> absent
            /\ ~absent => probe.result = [type |-> "*customPIIField", key |-> a.key,
                                          value |-> a.value,
                                          customResolveFunc |-> a.func]

C7_NilFunction ==
    /\ probe.fn = "CustomPII"
    /\ probe.args.key # ""
    /\ probe.args.value # ""
    /\ probe.args.func = Nil
    /\ probe.result = NilCustomPIIField

\* C8: NewLogger returns an error exactly when the level is not one of the
\* six levels or the mode not one of the four modes; with an error it returns
\* a nil logger, and without one a logger built from the configuration.
C8_NewLoggerValidates ==
    \A t \in Threads :
        LET f == th[t]
            valid ==
                /\ f.conf.MinimumLogLevel \in {DebugLevel, InfoLevel, WarnLevel,
                                               ErrorLevel, PanicLevel, FatalLevel}
                /\ f.conf.PIIMode \in {PIIModeNone, PIIModeHash, PIIModeMask,
                                       PIIModeRemove}
        IN  (f.op = "NewLogger" /\ f.pc = "idle") =>
                /\ (f.err # Nil) <=> ~valid
                /\ f.err # Nil => f.ret = 0
                /\ f.err = Nil =>
                    /\ f.ret \in 1..Len(loggers)
                    /\ origin[f.ret].by = "NewLogger"
                    /\ origin[f.ret].conf = f.conf
                    /\ loggers[f.ret].piiMode = f.conf.PIIMode

C8_UndefinedLevelRefused ==
    \E t \in Threads :
        /\ th[t].op = "NewLogger"
        /\ th[t].pc = "idle"
        /\ th[t].conf.MinimumLogLevel = 3
        /\ th[t].conf.PIIMode = PIIModeHash
        /\ th[t].err # Nil
        /\ th[t].ret = 0

\* C9: at every moment the mode of a logger that NewLogger built is the mode
\* of its configuration, and the mode of a logger that With derived is the
\* mode of the logger it was derived from.
C9_ModeNeverChanges ==
    \A id \in 1..Len(loggers) :
        /\ origin[id].by = "NewLogger" =>
            loggers[id].piiMode = origin[id].conf.PIIMode
        /\ origin[id].by = "With" =>
            /\ origin[id].parent \in 1..(id - 1)
            /\ loggers[id].piiMode = loggers[origin[id].parent].piiMode

C9_DerivedFromRemove ==
    \E id \in 1..Len(loggers) :
        /\ origin[id].by = "With"
        /\ origin[origin[id].parent].by = "NewLogger"
        /\ origin[origin[id].parent].conf.PIIMode = PIIModeRemove
        /\ loggers[id].piiMode = PIIModeRemove
        /\ \E t \in Threads : Returned(t) /\ th[t].op \in EmissionOps /\ MaskFunc # Nil

\* C10: With returns a logger other than its receiver, which carries what the
\* receiver carries and then the fields With attached; a logger not made by
\* With carries no attached field, and a record is written with exactly what
\* its logger carries.
C10_WithDerives ==
    /\ \A id \in 1..Len(loggers) :
        IF origin[id].by = "With"
        THEN /\ origin[id].parent \in 1..(id - 1)
             /\ loggers[id].logger.ctx =
                    loggers[origin[id].parent].logger.ctx \o origin[id].args
             /\ loggers[id].logger.fields = loggers[origin[id].parent].logger.fields
        ELSE loggers[id].logger.ctx = <<>>
    /\ \A t \in Threads :
        Returned(t) =>
            /\ th[t].op = "With" =>
                /\ th[t].ret # th[t].l
                /\ th[t].ret \in 1..Len(loggers)
                /\ origin[th[t].ret] = [by |-> "With", parent |-> th[t].l,
                                        conf |-> NoConf, args |-> th[t].out]
            /\ th[t].op \in EmissionOps =>
                th[t].ctx = loggers[th[t].l].logger.fields
                            \o loggers[th[t].l].logger.ctx

C10_OriginalAfterDerivation ==
    \E t \in Threads, d \in 1..Len(loggers) :
        /\ Returned(t)
        /\ th[t].op \in EmissionOps
        /\ origin[d].by = "With"
        /\ origin[d].parent = th[t].l
        /\ origin[d].args # <<>>
        /\ loggers[d].logger.ctx = origin[d].args
        /\ th[t].ctx = <<>>

\* C11: a method of Logger called on a nil *Logger ends in the panic of
\* handleUninitialized, having resolved nothing and handed nothing to zap; it
\* does not return.
C11_NilLoggerPanics ==
    \A t \in Threads :
        (th[t].op \in EmissionOps \cup {"Sync", "With"} /\ th[t].l = 0) =>
            /\ th[t].pc = "panic"
            /\ halt = PanicNoLogger
            /\ th[t].i = 0
            /\ th[t].out = <<>>
            /\ th[t].ctx = <<>>
            /\ th[t].ret = 0

C11_WithOnNil ==
    \E t \in Threads :
        /\ th[t].op = "With"
        /\ th[t].l = 0
        /\ th[t].kv # <<>>
        /\ th[t].pc = "panic"
        /\ halt = PanicNoLogger


\* the logger a constructor built from which logger id derives through With
RECURSIVE RootOf(_)
RootOf(id) == IF origin[id].by = "With" THEN RootOf(origin[id].parent) ELSE id

\* the fields of key k among those a zap logger attached to a record
FieldsOf(ctx, k) ==
    {i \in 1..Len(ctx) : ctx[i].type = "zap.Field" /\ ctx[i].Key = k}

\* the record of thread t carries the configured value v under key k, and no
\* field of key k when v is empty
NamedBy(t, k, v) ==
    IF v = "" THEN FieldsOf(th[t].ctx, k) = {}
    ELSE \E i \in FieldsOf(th[t].ctx, k) : th[t].ctx[i] = ZapString(k, v)

\* thread t has written a record through a logger that NewLogger built or
\* that derives from one
Wrote(t) ==
    /\ Returned(t)
    /\ th[t].op \in EmissionOps
    /\ th[t].dest # <<>>
    /\ origin[RootOf(th[t].l)].by \in {"NewLogger", "NewLoggerTee"}

\* C12: every record written through a logger carries the application name
\* under "app" and the version under "version" when its configuration names
\* them, and no field of that key when the configured value is empty.
C12_EmptyNamingOmitted ==
    \A t \in Threads :
        Wrote(t) =>
            LET c == origin[RootOf(th[t].l)].conf
            IN  /\ NamedBy(t, "app", c.ApplicationName)
                /\ NamedBy(t, "version", c.Version)

\* a record of a logger built with no application name has an "app" field
C12_EmptyAppEmitted ==
    \E t \in Threads :
        /\ Wrote(t)
        /\ origin[RootOf(th[t].l)].conf.ApplicationName = ""
        /\ \E i \in FieldsOf(th[t].ctx, "app") : th[t].ctx[i] = ZapString("app", "")

\* the elements of its input that a structured call of thread t has been
\* through: all of them once it has returned, and those before element i
\* while it is at element i
Scanned(t) == IF th[t].pc = "idle" THEN Len(th[t].kv) ELSE th[t].i - 1

\* what e.resolve(piiMode) can return, MaskFunc being nil or a function
Resolutions(e, piiMode) ==
    {resolve(e, piiMode, mf) : mf \in MaskFuncs \cup {Nil}} \ {NilDereference}

\* thread t is in, or has left, a structured emission or With on a logger
InStructured(t) == th[t].op \in StructuredOps /\ th[t].l # 0

\* every element the call has been through is forwarded at its own position:
\* as it is when it is no PIIResolver, and else as the result of its resolve
\* with the mode of the logger
ForwardedInPlace(t) ==
    LET f == th[t]
        piiMode == loggers[f.l].piiMode
    IN  /\ Len(f.out) = Scanned(t)
        /\ \A j \in 1..Scanned(t) :
                IF PIIResolver(f.kv[j])
                THEN f.out[j] \in Resolutions(f.kv[j], piiMode)
                ELSE f.out[j] = f.kv[j]

\* a step of a call in progress leaves the caller's sequence as it was
InputKept(t) ==
    (InStructured(t) /\ th[t].pc = "mask_call") => th'[t].kv = th[t].kv

\* C13: in Debugw, Infow, Warnw, Errorw, Fatalw and With, an element that is
\* no PIIResolver reaches zap unchanged and at its position, a PIIResolver is
\* replaced at its position by the result of its resolve with the mode of the
\* logger, and no step of the call changes the caller's sequence.
C13_ForwardedInPlace ==
    /\ [](\A t \in Threads : InStructured(t) => ForwardedInPlace(t))
    /\ [][\A t \in Threads : InputKept(t)]_vars

\* With has returned on a logger of mode remove, having replaced a custom
\* field and forwarded the plain pair that follows it
C13_WithReplacedAndForwarded ==
    \E t \in Threads :
        /\ th[t].op = "With" /\ th[t].pc = "idle" /\ th[t].l # 0
        /\ loggers[th[t].l].piiMode = PIIModeRemove
        /\ Len(th[t].kv) = 3
        /\ PIIResolver(th[t].kv[1]) /\ th[t].out[1] # th[t].kv[1]
        /\ ~PIIResolver(th[t].kv[2]) /\ th[t].out[2] = th[t].kv[2]
        /\ th[t].out[3] = th[t].kv[3]

\* the InitialFields that lines 445-453 make of one configuration
InitialFieldsOf(conf) ==
    LET named == IF conf.ApplicationName # ""
                 THEN MapSet(EmptyMap, "app", conf.ApplicationName) ELSE EmptyMap
    IN  IF conf.Version # "" THEN MapSet(named, "version", conf.Version) ELSE named

\* the zap logger that Build makes of one configuration alone
BuiltAlone(conf) ==
    Build([Level |-> conf.MinimumLogLevel, InitialFields |-> InitialFieldsOf(conf)])

\* C14: every logger NewLogger(conf) has returned has the minimum level of
\* conf and the app and version fields of conf, and no others, whichever
\* calls of NewLogger ran before it or run at the same time.
C14_BuiltFromOwnConf ==
    \A id \in 1..Len(loggers) :
        origin[id].by = "NewLogger" => loggers[id].logger = BuiltAlone(origin[id].conf)

\* NewLogger has returned a logger that has the level of one configuration
\* and was asked for with another, and a record below the level asked for
\* was written through it
C14_LevelOfAnotherCall ==
    \E id \in 1..Len(loggers), t \in Threads :
        /\ origin[id].by = "NewLogger"
        /\ loggers[id].logger.level # origin[id].conf.MinimumLogLevel
        /\ Returned(t) /\ th[t].l = id /\ th[t].dest # <<>>
        /\ LevelOf(th[t].op) < origin[id].conf.MinimumLogLevel

\* thread t has returned from an emission on a logger that the NewLogger of
\* lines 744-785 built, or that derives from one through With
EmittedOnTee(t) ==
    /\ Returned(t)
    /\ th[t].op \in EmissionOps
    /\ origin[RootOf(th[t].l)].by = "NewLoggerTee"

\* where a record of level lvl belongs for a logger of minimum level m
Routed(m, lvl) ==
    IF lvl < m THEN <<>>
    ELSE IF lvl < WarnLevel THEN <<"stdout">> ELSE <<"stderr">>

==========================================================================
